---- MODULE Spec2Model ----
(***************************************************************************)
(* PyLdB: Stevens' Mark VII perceived loudness (PLdB) of a pressure        *)
(* signature.  Source: src/Codes/Calculate PLdB from radiosonde/pyldb.py   *)
(*                                                                         *)
(* Number representation (floating point in the source):                   *)
(*   times            exact rationals <<num, den>> in milliseconds         *)
(*   frequencies      exact rationals in Hz; band limits in 1/100 Hz       *)
(*   pressures, Hann  fixed point, three decimals (value * 1000)           *)
(*   power, energy    fixed point integers, rounded down                   *)
(*   levels in dB     fixed point, one decimal (value * 10), with the two  *)
(*                    infinities of the floating point format; magnitudes  *)
(*                    of Huge or more overflow to an infinity              *)
(*   sones, factors   fixed point, three decimals (value * 1000)           *)
(***************************************************************************)
EXTENDS Integers, Sequences, FiniteSets, TLC

----------------------------------------------------------------------------
(* Bounds of the explored input space *)

MaxN == 5

MaxPad == 1

MaxWin == 3

----------------------------------------------------------------------------
(* Arithmetic helpers *)

Abs(x) == IF x < 0 THEN -x ELSE x

Min(a, b) == IF a <= b THEN a ELSE b

Max(a, b) == IF a >= b THEN a ELSE b

RECURSIVE GCD(_, _)
GCD(a, b) == IF b = 0 THEN a ELSE GCD(b, a % b)

\* floor(x * n / d) without forming x * n  (d > 0, n >= 0)
MulDiv(x, n, d) == (x \div d) * n + ((x % d) * n) \div d

\* exact rationals, kept in lowest terms with a positive denominator
Rat(n, d) ==
    LET s == IF d < 0 THEN -1 ELSE 1
        g == GCD(Abs(n), Abs(d))
    IN  <<(s * n) \div g, (s * d) \div g>>

RatInt(n) == <<n, 1>>

RatAdd(a, b) == Rat(a[1] * b[2] + b[1] * a[2], a[2] * b[2])

RatSub(a, b) == Rat(a[1] * b[2] - b[1] * a[2], a[2] * b[2])

RatMulInt(a, k) == Rat(a[1] * k, a[2])

RatDivInt(a, k) == Rat(a[1], a[2] * k)

RatDiv(a, b) == Rat(a[1] * b[2], a[2] * b[1])

RatLeq(a, b) == a[1] * b[2] <= b[1] * a[2]

RatLess(a, b) == a[1] * b[2] < b[1] * a[2]

\* levels: the floating point infinities and overflow to them
Huge == 1000000000

NegInf == -Huge

PosInf == Huge

Sat(v) == IF v >= Huge THEN PosInf ELSE IF v <= -Huge THEN NegInf ELSE v

ExtNeg(a) == -a

ExtAdd(a, b) ==
    IF a = NegInf \/ b = NegInf THEN NegInf
    ELSE IF a = PosInf \/ b = PosInf THEN PosInf
    ELSE Sat(a + b)

ExtSub(a, b) == ExtAdd(a, ExtNeg(b))

\* x * n / d for a positive ratio n / d, rounded down
ExtMulRatio(x, n, d) ==
    IF x = 0 THEN 0
    ELSE IF x = NegInf \/ x = PosInf THEN x
    ELSE IF Abs(x) > Huge \div (n \div d + 1)
         THEN (IF x < 0 THEN NegInf ELSE PosInf)
         ELSE Sat(MulDiv(x, n, d))

\* the sequence f with every element evaluated once
Array(f) == SubSeq(f, 1, Len(f))

\* sum of a sequence of integers
RECURSIVE SeqSum(_)
SeqSum(s) == IF s = <<>> THEN 0 ELSE Head(s) + SeqSum(Tail(s))

RECURSIVE SeqMax(_)
SeqMax(s) == IF Len(s) = 1 THEN s[1] ELSE Max(Head(s), SeqMax(Tail(s)))

----------------------------------------------------------------------------
(* Constant tables (pyldb.py, module level).  Sequences are 1-based here:  *)
(* entry i of the source is entry i + 1 of the sequence.                   *)

\* np.arange(1, 141, 1), in tenths of a dB
L_EQ_RANGE == [k \in 1..140 |-> RatInt(10 * k)]

SONES_L ==
    << 78, 87, 97, 107, 118, 129, 141, 153,
       166, 181, 196, 212, 230, 248, 269, 290,
       314, 339, 367, 396, 428, 463, 500, 540,
       583, 630, 680, 735, 794, 857, 926, 1000,
       1080, 1170, 1260, 1360, 1470, 1590, 1710, 1850,
       2000, 2160, 2330, 2520, 2720, 2940, 3180, 3430,
       3700, 4000, 4320, 4670, 5040, 5440, 5880, 6350,
       6860, 7410, 8000, 8640, 9330, 10100, 10900, 11800,
       12700, 13700, 14800, 16000, 17300, 18700, 20200, 21800,
       23500, 25400, 27400, 29600, 32000, 34600, 37300, 40300,
       43500, 47000, 50800, 54900, 59300, 64000, 69100, 74700,
       80600, 87100, 94100, 102000, 110000, 119000, 128000, 138000,
       149000, 161000, 174000, 188000, 203000, 219000, 237000, 256000,
       276000, 299000, 323000, 348000, 376000, 406000, 439000, 474000,
       512000, 553000, 597000, 645000, 697000, 752000, 813000, 878000,
       948000, 1024000, 1106000, 1194000, 1290000, 1393000, 1505000, 1625000,
       1756000, 1896000, 2048000, 2212000, 2389000, 2580000, 2787000, 3010000,
       3251000, 3511000, 3792000, 4096000 >>

\* np.copy(SONES_L[9:104])
SONES_F == [k \in 1..95 |-> RatInt(SONES_L[k + 9])]

\* variant: a table that rises by one thousandth per entry
SUMMATION_FACTORS_Rising == [k \in 1..95 |-> 99 + k]

SUMMATION_FACTORS ==
    << 100, 122, 140, 158, 174, 187, 200, 212,
       222, 232, 241, 250, 259, 267, 274, 281,
       287, 293, 298, 303, 308, 312, 316, 319,
       320, 322, 322, 320, 319, 317, 314, 311,
       308, 304, 300, 296, 292, 288, 284, 279,
       275, 270, 266, 262, 258, 253, 248, 244,
       240, 235, 230, 226, 222, 217, 212, 208,
       204, 200, 197, 195, 194, 193, 192, 191,
       190, 190, 190, 190, 190, 190, 191, 191,
       192, 193, 194, 195, 197, 199, 201, 203,
       205, 208, 210, 212, 215, 217, 219, 221,
       223, 224, 225, 226, 227, 227, 227 >>

\* Hz as <<num, den>>
BAND_CENTERS ==
    << <<10000001, 10000000>>, <<125, 100>>, <<160, 100>>, <<200, 100>>,
       <<250, 100>>, <<315, 100>>, <<400, 100>>, <<500, 100>>,
       <<630, 100>>, <<800, 100>>, <<1000, 100>>, <<1250, 100>>,
       <<1600, 100>>, <<2000, 100>>, <<2500, 100>>, <<3150, 100>>,
       <<4000, 100>>, <<5000, 100>>, <<6300, 100>>, <<8000, 100>>,
       <<10000, 100>>, <<12500, 100>>, <<16000, 100>>, <<20000, 100>>,
       <<25000, 100>>, <<31500, 100>>, <<40000, 100>>, <<50000, 100>>,
       <<63000, 100>>, <<80000, 100>>, <<100000, 100>>, <<125000, 100>>,
       <<160000, 100>>, <<200000, 100>>, <<250000, 100>>, <<315000, 100>>,
       <<400000, 100>>, <<500000, 100>>, <<630000, 100>>, <<800000, 100>>,
       <<1000000, 100>>, <<1250000, 100>> >>

\* 1/100 Hz
BAND_LOWER_LIMITS ==
    << 89, 112, 141, 178, 224, 282, 355, 447,
       562, 708, 891, 1120, 1410, 1780, 2240, 2820,
       3550, 4470, 5620, 7080, 8910, 11200, 14100, 17800,
       22400, 28200, 35500, 44700, 56200, 70800, 89100, 112000,
       141000, 178000, 224000, 282000, 355000, 447000, 562000, 708000,
       891000, 1120000 >>

\* 1/100 Hz
BAND_UPPER_LIMITS ==
    << 112, 141, 178, 224, 282, 355, 447, 562,
       708, 891, 1120, 1410, 1780, 2240, 2820, 3550,
       4470, 5620, 7080, 8910, 11200, 14100, 17800, 22400,
       28200, 35500, 44700, 56200, 70800, 89100, 112000, 141000,
       178000, 224000, 282000, 355000, 447000, 562000, 708000, 891000,
       1120000, 1410000 >>

\* the band limits as rationals in Hz
LowerHz == [k \in 1..Len(BAND_LOWER_LIMITS) |-> Rat(BAND_LOWER_LIMITS[k], 100)]

UpperHz == [k \in 1..Len(BAND_UPPER_LIMITS) |-> Rat(BAND_UPPER_LIMITS[k], 100)]

\* np.log10(BAND_CENTERS[i]) as <<num, den>>
LOG10_BAND_CENTERS ==
    << <<1, 23030000>>, <<969, 10000>>, <<2041, 10000>>, <<3010, 10000>>,
       <<3979, 10000>>, <<4983, 10000>>, <<6021, 10000>>, <<6990, 10000>>,
       <<7993, 10000>>, <<9031, 10000>>, <<10000, 10000>>, <<10969, 10000>>,
       <<12041, 10000>>, <<13010, 10000>>, <<13979, 10000>>, <<14983, 10000>>,
       <<16021, 10000>>, <<16990, 10000>>, <<17993, 10000>>, <<19031, 10000>>,
       <<20000, 10000>>, <<20969, 10000>>, <<22041, 10000>>, <<23010, 10000>>,
       <<23979, 10000>>, <<24983, 10000>>, <<26021, 10000>>, <<26990, 10000>>,
       <<27993, 10000>>, <<29031, 10000>>, <<30000, 10000>>, <<30969, 10000>>,
       <<32041, 10000>>, <<33010, 10000>>, <<33979, 10000>>, <<34983, 10000>>,
       <<36021, 10000>>, <<36990, 10000>>, <<37993, 10000>>, <<39031, 10000>>,
       <<40000, 10000>>, <<40969, 10000>> >>

\* 10^(k/100) * 10000 for k = 0..99, rounded up: the mantissa table of log10
POW10_HUNDREDTHS ==
    << 10000, 10233, 10472, 10716, 10965, 11221, 11482, 11749, 12023, 12303,
       12590, 12883, 13183, 13490, 13804, 14126, 14455, 14792, 15136, 15489,
       15849, 16219, 16596, 16983, 17379, 17783, 18198, 18621, 19055, 19499,
       19953, 20418, 20893, 21380, 21878, 22388, 22909, 23443, 23989, 24548,
       25119, 25704, 26303, 26916, 27543, 28184, 28841, 29513, 30200, 30903,
       31623, 32360, 33114, 33885, 34674, 35482, 36308, 37154, 38019, 38905,
       39811, 40739, 41687, 42658, 43652, 44669, 45709, 46774, 47864, 48978,
       50119, 51287, 52481, 53704, 54955, 56235, 57544, 58885, 60256, 61660,
       63096, 64566, 66070, 67609, 69184, 70795, 72444, 74132, 75858, 77625,
       79433, 81284, 83177, 85114, 87097, 89126, 91202, 93326, 95500, 97724 >>

----------------------------------------------------------------------------
(* Library primitives used by the pipeline *)

\* np.hanning(M): 0.5 - 0.5*cos(2*pi*n/(M-1)), three decimals
hanning(M) ==
    CASE M = 0  -> <<>>
      [] M = 1  -> <<1000>>
      [] M = 2  -> <<0, 0>>
      [] M = 4  -> <<0, 750, 750, 0>>
      [] M = 6  -> <<0, 345, 905, 905, 345, 0>>
      [] M = 8  -> <<0, 188, 611, 950, 950, 611, 188, 0>>
      [] M = 10 -> <<0, 117, 413, 750, 970, 970, 750, 413, 117, 0>>
      [] M = 12 -> <<0, 79, 292, 571, 827, 980, 980, 827, 571, 292, 79, 0>>

\* product of two three-decimal fixed point numbers
FxMul(v, w) == (v * w) \div 1000

\* variant: a longer right-hand side is cut to the slice's length
CanBroadcast_Truncating(n, w) == Len(w) >= n \/ Len(w) = 1

\* a[start+1 .. start+n] *= w, numpy in-place broadcasting: the right-hand
\* side must have the slice's length or length 1, otherwise ValueError
CanBroadcast(n, w) == Len(w) = n \/ Len(w) = 1

MulSlice(a, start, n, w) ==
    [k \in 1..Len(a) |->
        IF k > start /\ k <= start + n
        THEN FxMul(a[k], IF Len(w) = 1 THEN w[1] ELSE w[k - start])
        ELSE a[k]]

\* np.linspace(start, stop, num, endpoint=True) over rationals
linspace(start, stop, num) ==
    [i \in 1..num |->
        IF num = 1 THEN start
        ELSE RatAdd(start,
                    RatDivInt(RatMulInt(RatSub(stop, start), i - 1), num - 1))]

\* np.pad(y, (f, r), 'constant')
pad(y, f, r) ==
    [k \in 1..(f + Len(y) + r) |->
        IF k > f /\ k <= f + Len(y) THEN y[k - f] ELSE 0]

----------------------------------------------------------------------------
(* _window(dataset, len_window) *)

\* variant: the rear taper multiplies by the rising half win[:len_window]
_window_RearRising(dataset, len_window) ==
    LET N       == Len(dataset)
        win     == hanning(len_window * 2)
        nFront  == Min(len_window, N)
        wFront  == SubSeq(win, 1, len_window)
        step1   == MulSlice(dataset, 0, nFront, wFront)
        nRear   == IF len_window = 0 THEN N ELSE Min(len_window, N)
        step2   == MulSlice(step1, N - nRear, nRear, wFront)
    IN  IF Len(wFront) = nFront /\ Len(wFront) = nRear
        THEN [error |-> FALSE, windowed_data |-> step2, dataset |-> dataset]
        ELSE [error |-> TRUE,  windowed_data |-> <<>>,  dataset |-> dataset]

\* The result records the error outcome, the returned array and the
\* caller's array after the call.
_window(dataset, len_window) ==
    LET N       == Len(dataset)
        win     == hanning(len_window * 2)
        copy    == dataset
        \* windowed_data[:len_window] *= win[:len_window]
        nFront  == Min(len_window, N)
        wFront  == SubSeq(win, 1, len_window)
        okFront == CanBroadcast(nFront, wFront)
        step1   == MulSlice(copy, 0, nFront, wFront)
        \* windowed_data[-len_window:] *= win[len_window:]
        nRear   == IF len_window = 0 THEN N ELSE Min(len_window, N)
        wRear   == SubSeq(win, len_window + 1, 2 * len_window)
        okRear  == CanBroadcast(nRear, wRear)
        step2   == MulSlice(step1, N - nRear, nRear, wRear)
    IN  IF okFront /\ okRear
        THEN [error |-> FALSE, windowed_data |-> step2, dataset |-> dataset]
        ELSE [error |-> TRUE,  windowed_data |-> <<>>,  dataset |-> dataset]

----------------------------------------------------------------------------
(* _padding(x_var, y_var, f_pad, r_pad) *)

_padding(x_var, y_var, f_pad, r_pad) ==
    LET n         == Len(x_var)
        pad_y     == pad(y_var, f_pad, r_pad)
        step      == RatSub(x_var[2], x_var[1])
        frontpad  == RatMulInt(step, f_pad)
        rearpad   == RatAdd(RatAdd(x_var[n], RatMulInt(step, r_pad)), frontpad)
        frontx    == linspace(x_var[1], frontpad, f_pad)
        rearx     == linspace(RatAdd(x_var[n], frontpad), rearpad, r_pad)
        shifted_x == [k \in 1..n |-> RatAdd(x_var[k], frontpad)]
        pad_x     == frontx \o shifted_x \o rearx
    IN  [pad_x |-> pad_x, pad_y |-> pad_y]

----------------------------------------------------------------------------
(* More library primitives *)

\* floor(100 * log10(n)) for an integer n >= 1: decade plus mantissa lookup
RECURSIVE Log10T(_)
Log10T(n) ==
    IF n < 10000 THEN Log10T(n * 10) - 100
    ELSE IF n >= 100000 THEN Log10T(n \div 10) + 100
    ELSE 400 + Cardinality({k \in 1..100 : POW10_HUNDREDTHS[k] <= n}) - 1

\* 10 * np.log10(n / d) in tenths of a dB; log10(0) is -inf
TenLog10(n, d) == IF n = 0 THEN NegInf ELSE Log10T(n) - Log10T(d)

\* np.interp(x, xp, fp, left, right) for one x; x and xp are rationals,
\* fp integers; the interpolated value is rounded down
interp(x, xp, fp, left, right) ==
    LET n == Len(xp)
    IN  IF RatLess(x, xp[1]) THEN left
        ELSE IF RatLess(xp[n], x) THEN right
        ELSE IF x = xp[n] THEN fp[n]
        ELSE LET k == CHOOSE j \in 1..(n - 1) :
                          RatLeq(xp[j], x) /\ RatLess(x, xp[j + 1])
                 w == RatDiv(RatSub(x, xp[k]), RatSub(xp[k + 1], xp[k]))
             IN  fp[k] + ((fp[k + 1] - fp[k]) * w[1]) \div w[2]

\* np.fft.fftfreq(N): k/N for the first half, (k - N)/N for the second
fftfreq(N) ==
    Array([k \in 1..N |->
        IF k - 1 <= (N - 1) \div 2 THEN Rat(k - 1, N) ELSE Rat(k - 1 - N, N)])

\* variant: the merged rows are left in the order of concatenation
SortByFreq_Unsorted(s) == s

\* np.argsort on the frequency row, then both rows reordered: s is a
\* sequence of <<frequency, power>> pairs; equal frequencies keep their order
SortByFreq(s) ==
    LET n    == Len(s)
        rank == Array([i \in 1..n |->
                    1 + Cardinality({j \in 1..n :
                            \/ RatLess(s[j][1], s[i][1])
                            \/ (s[j][1] = s[i][1] /\ j < i)})])
    IN  [r \in 1..n |-> s[CHOOSE i \in 1..n : rank[i] = r]]

\* scipy.integrate.trapz(y, x=x): sum of (x[i+1]-x[i]) * (y[i+1]+y[i]) / 2,
\* each term rounded down
RECURSIVE trapz(_, _)
trapz(y, x) ==
    IF Len(y) < 2 THEN 0
    ELSE LET d == RatSub(x[2], x[1])
         IN  MulDiv(d[1], y[1] + y[2], 2 * d[2]) + trapz(Tail(y), Tail(x))

----------------------------------------------------------------------------
(* _power_interp(freq, power, N) *)

\* variant: the one-sided spectrum is returned without the values
\* interpolated at the band limits
_power_interp_SampledOnly(freq, power, N) ==
    LET half           == N \div 2
        freq_one_side  == SubSeq(freq, 1, half)
        doubled        == Array([k \in 1..Len(power) |->
                              IF k >= 2 /\ k <= half THEN 2 * power[k]
                              ELSE power[k]])
        power_one_side == SubSeq(doubled, 1, half)
    IN  [freq_one  |-> freq_one_side, power_one |-> power_one_side]

_power_interp(freq, power, N) ==
    LET half           == N \div 2
        freq_one_side  == SubSeq(freq, 1, half)
        \* power[1:N//2] = 2.*power[1:N//2]
        doubled        == Array([k \in 1..Len(power) |->
                              IF k >= 2 /\ k <= half THEN 2 * power[k]
                              ELSE power[k]])
        power_one_side == SubSeq(doubled, 1, half)
        \* np.append(BAND_LOWER_LIMITS, BAND_UPPER_LIMITS[-1])
        interp_freq    == Append(LowerHz, UpperHz[Len(UpperHz)])
        interp_power   == Array([k \in 1..Len(interp_freq) |->
                              interp(interp_freq[k], freq_one_side, power_one_side,
                                     power_one_side[1], power_one_side[half])])
        full_pow_freq  == [k \in 1..half |-> <<freq_one_side[k], power_one_side[k]>>]
                          \o [k \in 1..Len(interp_freq) |->
                                 <<interp_freq[k], interp_power[k]>>]
        sorted         == Array(SortByFreq(full_pow_freq))
    IN  [freq_one  |-> [k \in 1..Len(sorted) |-> sorted[k][1]],
         power_one |-> [k \in 1..Len(sorted) |-> sorted[k][2]]]

----------------------------------------------------------------------------
(* _power_spectrum(time, pressure) *)

\* fft2 stands for np.abs(np.fft.fft(pressure))**2, in (1/1000 psf)^2.
\* Power is in units of 10^-14 psf^2 s^2.
_power_spectrum(time_, pressure_, fft2) ==
    LET N     == Len(pressure_)
        \* dt = ((time[-1]-time[0])/N)*(10**-3), seconds
        dt_   == RatDivInt(RatDivInt(RatSub(time_[Len(time_)], time_[1]), N), 1000)
        bins  == fftfreq(N)
        freq_ == Array([k \in 1..N |-> RatDiv(bins[k], dt_)])
        dt4   == RatMulInt(dt_, 10000)
        Power == Array([k \in 1..N |->
                           (fft2[k] * dt4[1] * dt4[1]) \div (dt4[2] * dt4[2])])
        r     == _power_interp(freq_, Power, N)
    IN  [dt |-> dt_, freq |-> r.freq_one, power |-> r.power_one]

----------------------------------------------------------------------------
(* _sound_pressure_levels(freq, power, n_bins) *)

\* po**2 with po = (2.900755e-9)*144 psf, as <<num, den>> in 10^-14 psf^2
PO_SQUARED == <<174481, 10000>>

\* t_crit = 0.07 as <<num, den>>
T_CRIT == <<7, 100>>

_sound_pressure_levels(freq_, power_, n_bins_) ==
    LET i_section(j) ==
            {i \in 1..Len(freq_) :
                /\ RatLeq(LowerHz[j], freq_[i])
                /\ RatLeq(freq_[i], UpperHz[j])}
        \* the selected indices in ascending order
        section(j) ==
            LET S == i_section(j)
                RECURSIVE Asc(_)
                Asc(T) == IF T = {} THEN <<>>
                          ELSE LET m == CHOOSE a \in T : \A b \in T : a <= b
                               IN  <<m>> \o Asc(T \ {m})
            IN  Asc(S)
        raw(j) ==
            LET idx == section(j)
            IN  IF Len(idx) # 0
                THEN trapz([k \in 1..Len(idx) |-> power_[idx[k]]],
                           [k \in 1..Len(idx) |-> freq_[idx[k]]])
                ELSE 0
        \* energy /= t_crit
        energy_  == Array([j \in 1..n_bins_ |->
                              MulDiv(raw(j), T_CRIT[2], T_CRIT[1])])
        \* loudness = 10*np.log10(energy/(po**2)) - 3
        loudness_ == [j \in 1..n_bins_ |->
                        ExtSub(IF energy_[j] = 0 THEN NegInf
                               ELSE TenLog10(energy_[j], 1)
                                    + TenLog10(PO_SQUARED[2], PO_SQUARED[1]),
                               30)]
    IN  [energy |-> energy_, loudness |-> loudness_]

----------------------------------------------------------------------------
(* _loud_limits_400(f_central, lower_limit, upper_limit, loudness, X) *)

\* np.log10 of a band center frequency
log10(f) == LOG10_BAND_CENTERS[CHOOSE k \in 1..Len(BAND_CENTERS) : BAND_CENTERS[k] = f]

\* np.log10(a) / np.log10(b) as a ratio <<num, den>> of integers
LogRatio(a, b) ==
    LET p == log10(a)
        q == log10(b)
    IN  <<p[1] * (q[2] \div p[2]), q[1]>>

F80 == <<8000, 100>>

F400 == <<40000, 100>>

\* variant: the first test is strict
Branches_StrictLow(lower_limit, upper_limit, loudness) ==
    (IF loudness < lower_limit THEN {"low"} ELSE {})
    \cup (IF lower_limit < loudness /\ loudness <= upper_limit THEN {"mid"} ELSE {})
    \cup (IF loudness > upper_limit THEN {"high"} ELSE {})

\* variant: a level within one tenth of a dB above the lower limit is
\* taken as equal to it
Branches_TolerantLow(lower_limit, upper_limit, loudness) ==
    (IF loudness <= lower_limit + 1 THEN {"low"} ELSE {})
    \cup (IF lower_limit + 1 < loudness /\ loudness <= upper_limit THEN {"mid"} ELSE {})
    \cup (IF loudness > upper_limit THEN {"high"} ELSE {})

\* which of the three tests of _loud_limits_400 succeed
Branches(lower_limit, upper_limit, loudness) ==
    (IF loudness <= lower_limit THEN {"low"} ELSE {})
    \cup (IF lower_limit < loudness /\ loudness <= upper_limit THEN {"mid"} ELSE {})
    \cup (IF loudness > upper_limit THEN {"high"} ELSE {})

\* The three tests are separate if statements executed in order: each one
\* that succeeds assigns L_eq; with none L_eq is unbound at the return.
_loud_limits_400(f_central, lower_limit, upper_limit, loudness, X) ==
    LET r  == LogRatio(F400, f_central)
        b  == Branches(lower_limit, upper_limit, loudness)
        v0 == [bound |-> FALSE, L_eq |-> 0]
        v1 == IF "low" \in b
              THEN [bound |-> TRUE,
                    L_eq  |-> ExtSub(ExtSub(1150,
                                  ExtMulRatio(ExtSub(1150, loudness), r[1], r[2])), 80)]
              ELSE v0
        v2 == IF "mid" \in b
              THEN [bound |-> TRUE, L_eq |-> ExtSub(ExtSub(loudness, X), 80)]
              ELSE v1
        v3 == IF "high" \in b
              THEN [bound |-> TRUE,
                    L_eq  |-> ExtSub(ExtSub(1600,
                                  ExtMulRatio(ExtSub(1600, loudness), r[1], r[2])), 80)]
              ELSE v2
    IN  v3

----------------------------------------------------------------------------
(* _equivalent_loudness(L, n_bins) *)

\* the tests on the band index i (0-based), in source order
TierNames == <<"above39", "35to39", "32to34", "27to31", "20to26", "upto19">>

\* variant: the identity tier starts one band late
TierGuard_LateIdentity(t, i) ==
    CASE t = "above39" -> i > 39
      [] t = "35to39"  -> 35 < i /\ i <= 39
      [] t = "32to34"  -> 32 <= i /\ i <= 34
      [] t = "27to31"  -> 26 < i /\ i <= 31
      [] t = "20to26"  -> 20 <= i /\ i <= 26
      [] t = "upto19"  -> i <= 19

TierGuard(t, i) ==
    CASE t = "above39" -> i > 39
      [] t = "35to39"  -> 35 <= i /\ i <= 39
      [] t = "32to34"  -> 32 <= i /\ i <= 34
      [] t = "27to31"  -> 26 < i /\ i <= 31
      [] t = "20to26"  -> 20 <= i /\ i <= 26
      [] t = "upto19"  -> i <= 19

\* (lower_limit, upper_limit, X) written out for i = 26 down to 20
Limits400(i) ==
    CASE i = 26 -> <<760, 1210, 0>>
      [] i = 25 -> <<775, 1225, 15>>
      [] i = 24 -> <<790, 1240, 30>>
      [] i = 23 -> <<805, 1255, 45>>
      [] i = 22 -> <<820, 1270, 60>>
      [] i = 21 -> <<835, 1285, 75>>
      [] i = 20 -> <<850, 1300, 90>>

\* value assigned by tier t to band i (0-based) with level Li
TierValue(t, i, Li) ==
    CASE t = "above39" -> [bound |-> TRUE, L_eq |-> ExtAdd(Li, 40 * (39 - i))]
      [] t = "35to39"  -> [bound |-> TRUE, L_eq |-> Li]
      [] t = "32to34"  -> [bound |-> TRUE, L_eq |-> ExtSub(Li, 20 * (35 - i))]
      [] t = "27to31"  -> [bound |-> TRUE, L_eq |-> ExtSub(Li, 80)]
      [] t = "20to26"  ->
            LET lim == Limits400(i)
            IN  _loud_limits_400(BAND_CENTERS[i + 1], lim[1], lim[2], Li, lim[3])
      [] t = "upto19"  ->
            LET r      == LogRatio(F80, BAND_CENTERS[i + 1])
                L_eq_B == ExtSub(1600, ExtMulRatio(ExtSub(1600, Li), r[1], r[2]))
            IN  _loud_limits_400(F80, 865, 1315, L_eq_B, 105)

\* the if statements run in source order; a later one overwrites an earlier one
RECURSIVE RunTiers(_, _, _, _)
RunTiers(k, i, Li, acc) ==
    IF k > Len(TierNames) THEN acc
    ELSE RunTiers(k + 1, i, Li,
                  IF TierGuard(TierNames[k], i)
                  THEN TierValue(TierNames[k], i, Li) ELSE acc)

\* error is TRUE when _loud_limits_400 returned without binding its result
_equivalent_loudness(L, n_bins_) ==
    LET res == Array([j \in 1..n_bins_ |->
                   RunTiers(1, j - 1, L[j], [bound |-> TRUE, L_eq |-> 0])])
    IN  [error |-> \E j \in 1..n_bins_ : ~res[j].bound,
         L_eq  |-> [j \in 1..n_bins_ |-> res[j].L_eq]]

----------------------------------------------------------------------------
(* _calc_total_loudness(L_eq) *)

\* variant: np.interp's default left values, the tables' first entries
_calc_total_loudness_DefaultLeft(L_eq_) ==
    LET sones_ == Array([j \in 1..Len(L_eq_) |->
                      interp(RatInt(L_eq_[j]), L_EQ_RANGE, SONES_L,
                             SONES_L[1], SONES_L[Len(SONES_L)])])
        smax      == SeqMax(sones_)
        sum_f_max == interp(RatInt(smax), SONES_F, SUMMATION_FACTORS,
                            SUMMATION_FACTORS[1],
                            SUMMATION_FACTORS[Len(SUMMATION_FACTORS)])
        total     == smax + MulDiv(SeqSum(sones_) - smax, sum_f_max, 1000)
    IN  [total_loudness |-> total, sones |-> sones_, sum_f_max |-> sum_f_max]

\* variant: the factor weighs the whole sum, the loudest band included
_calc_total_loudness_WholeSum(L_eq_) ==
    LET sones_ == Array([j \in 1..Len(L_eq_) |->
                      interp(RatInt(L_eq_[j]), L_EQ_RANGE, SONES_L,
                             0, SONES_L[Len(SONES_L)])])
        smax      == SeqMax(sones_)
        sum_f_max == interp(RatInt(smax), SONES_F, SUMMATION_FACTORS,
                            0, SUMMATION_FACTORS[Len(SUMMATION_FACTORS)])
        total     == smax + MulDiv(SeqSum(sones_), sum_f_max, 1000)
    IN  [total_loudness |-> total, sones |-> sones_, sum_f_max |-> sum_f_max]

_calc_total_loudness(L_eq_) ==
    LET sones_ == Array([j \in 1..Len(L_eq_) |->
                      interp(RatInt(L_eq_[j]), L_EQ_RANGE, SONES_L,
                             0, SONES_L[Len(SONES_L)])])
        smax      == SeqMax(sones_)
        sum_f_max == interp(RatInt(smax), SONES_F, SUMMATION_FACTORS,
                            0, SUMMATION_FACTORS[Len(SUMMATION_FACTORS)])
        total     == smax + MulDiv(SeqSum(sones_) - smax, sum_f_max, 1000)
    IN  [total_loudness |-> total, sones |-> sones_, sum_f_max |-> sum_f_max]

\* variant: silence is given 0 PLdB instead of the logarithm of zero
PLdB_Guarded(total) ==
    IF total = 0 THEN 0
    ELSE ExtAdd(320, MulDiv(TenLog10(total, 1000), 9000, 3010))

\* 32.0 + 9.0*np.log2(total_loudness), tenths of a PLdB; log2(0) is -inf
\* (np.log2(x) as log10(x)/log10(2), log10(2) = 0.3010)
PLdB(total) ==
    IF total = 0 THEN NegInf
    ELSE ExtAdd(320, MulDiv(TenLog10(total, 1000), 9000, 3010))

\* variant: one band short
n_bins_Short == Len(BAND_CENTERS) - 1

\* n_bins = len(BAND_CENTERS)
n_bins == Len(BAND_CENTERS)

----------------------------------------------------------------------------
(* State of one call of perceivedloudness *)

VARIABLES
    pc,               \* position in perceivedloudness
    time,             \* argument: time samples, ms
    pressure,         \* argument: pressure samples
    pad_front,        \* argument
    pad_rear,         \* argument
    len_window,       \* argument
    pressure_window,  \* result of _window
    time_pad,         \* result of _padding
    pressure_pad,     \* result of _padding
    dt,               \* time step computed in _power_spectrum, seconds
    freq,             \* result of _power_spectrum
    power,            \* result of _power_spectrum
    energy,           \* result of _sound_pressure_levels
    loudness,         \* result of _sound_pressure_levels
    L_eq,             \* result of _equivalent_loudness
    sones,            \* result of _calc_total_loudness
    sum_f_max,        \* summation factor looked up in _calc_total_loudness
    total_loudness,   \* result of _calc_total_loudness
    pldb              \* value returned by perceivedloudness

args == <<time, pad_front, pad_rear, len_window>>

vars == <<pc, time, pressure, pad_front, pad_rear, len_window,
          pressure_window, time_pad, pressure_pad, dt, freq, power,
          energy, loudness, L_eq, sones, sum_f_max, total_loudness, pldb>>

\* pressure signals offered as input, three decimals (0.04 psf = 40):
\* silence, a constant step and a ramp
Signals(n) == {[k \in 1..n |-> 0], [k \in 1..n |-> 40], [k \in 1..n |-> 40 * k]}

\* first time sample and sample spacing offered as input, ms
TimeOrigins == {RatInt(0), RatInt(1)}

TimeSteps == {RatInt(1), Rat(1, 10)}

UniformTime(t0, step, n) == [k \in 1..n |-> RatAdd(t0, RatMulInt(step, k - 1))]

AllZero(s) == \A k \in 1..Len(s) : s[k] = 0

\* squared magnitudes offered for np.fft.fft of a signal p: all zero for an
\* all-zero signal (the transform is linear); otherwise a flat spectrum, a
\* spectrum confined to the Nyquist bin, or a single line at bin b and its
\* mirror image (the transform of a real signal is conjugate symmetric);
\* the magnitude of a line is 40, in (1/1000 psf)^2
Spectra(p) ==
    LET N == Len(p)
    IN  IF AllZero(p) THEN {[k \in 1..N |-> 0]}
        ELSE {[k \in 1..N |-> 40]}
             \cup {[k \in 1..N |-> IF 2 * (k - 1) = N THEN 40 ELSE 0]}
             \cup {[k \in 1..N |-> IF k - 1 = b \/ N - (k - 1) = b
                                   THEN 40 ELSE 0] :
                      b \in 0..(N \div 2 - 1)}

Unset ==
    /\ pressure_window = <<>>
    /\ time_pad = <<>>
    /\ pressure_pad = <<>>
    /\ dt = RatInt(0)
    /\ freq = <<>>
    /\ power = <<>>
    /\ energy = <<>>

UnsetLoud ==
    /\ L_eq = <<>>
    /\ sones = <<>>
    /\ sum_f_max = 0
    /\ total_loudness = 0
    /\ pldb = 0

\* a call perceivedloudness(time, pressure, pad_front, pad_rear, len_window)
Init ==
    /\ pc = "start"
    /\ \E n \in 2..MaxN :
         /\ pressure \in Signals(n)
         /\ \E t0 \in TimeOrigins, step \in TimeSteps :
                time = UniformTime(t0, step, n)
    /\ pad_front \in 0..MaxPad
    /\ pad_rear \in 0..MaxPad
    /\ len_window \in 0..MaxWin
    /\ Unset
    /\ loudness = <<>>
    /\ UnsetLoud

\* pressure_window = _window(pressure, len_window)
Window ==
    /\ pc = "start"
    /\ LET r == _window(pressure, len_window)
       IN  /\ pressure' = r.dataset
           /\ pressure_window' = r.windowed_data
           /\ pc' = IF r.error THEN "error" ELSE "windowed"
    /\ UNCHANGED <<args, time_pad, pressure_pad, dt, freq, power, energy,
                   loudness, L_eq, sones, sum_f_max, total_loudness, pldb>>

\* time_pad, pressure_pad = _padding(time, pressure_window, frontpad, rearpad)
Padding ==
    /\ pc = "windowed"
    /\ LET frontpad == Len(pressure) * pad_front
           rearpad  == Len(pressure) * pad_rear
           r        == _padding(time, pressure_window, frontpad, rearpad)
       IN  /\ time_pad' = r.pad_x
           /\ pressure_pad' = r.pad_y
    /\ pc' = "padded"
    /\ UNCHANGED <<args, pressure, pressure_window, dt, freq, power, energy,
                   loudness, L_eq, sones, sum_f_max, total_loudness, pldb>>

\* freq, power = _power_spectrum(time_pad, pressure_pad)
PowerSpectrum ==
    /\ pc = "padded"
    /\ \E fft2 \in Spectra(pressure_pad) :
         LET r == _power_spectrum(time_pad, pressure_pad, fft2)
         IN  /\ dt' = r.dt
             /\ freq' = r.freq
             /\ power' = r.power
    /\ pc' = "spectrum"
    /\ UNCHANGED <<args, pressure, pressure_window, time_pad, pressure_pad,
                   energy, loudness, L_eq, sones, sum_f_max, total_loudness, pldb>>

\* energy, loudness = _sound_pressure_levels(freq, power, n_bins)
SoundPressureLevels ==
    /\ pc = "spectrum"
    /\ LET r == _sound_pressure_levels(freq, power, n_bins)
       IN  /\ energy' = r.energy
           /\ loudness' = r.loudness
    /\ pc' = "spl"
    /\ UNCHANGED <<args, pressure, pressure_window, time_pad, pressure_pad,
                   dt, freq, power, L_eq, sones, sum_f_max, total_loudness, pldb>>

\* L_eq = _equivalent_loudness(loudness, n_bins)
EquivalentLoudness ==
    /\ pc = "spl"
    /\ LET r == _equivalent_loudness(loudness, n_bins)
       IN  /\ L_eq' = r.L_eq
           /\ pc' = IF r.error THEN "error" ELSE "leq"
    /\ UNCHANGED <<args, pressure, pressure_window, time_pad, pressure_pad,
                   dt, freq, power, energy, loudness, sones, sum_f_max,
                   total_loudness, pldb>>

\* total_loudness, sones = _calc_total_loudness(L_eq)
CalcTotalLoudness ==
    /\ pc = "leq"
    /\ LET r == _calc_total_loudness(L_eq)
       IN  /\ sones' = r.sones
           /\ sum_f_max' = r.sum_f_max
           /\ total_loudness' = r.total_loudness
    /\ pc' = "summed"
    /\ UNCHANGED <<args, pressure, pressure_window, time_pad, pressure_pad,
                   dt, freq, power, energy, loudness, L_eq, pldb>>

\* pldb = 32.0 + 9.0*np.log2(total_loudness); return pldb
Return ==
    /\ pc = "summed"
    /\ pldb' = PLdB(total_loudness)
    /\ pc' = "done"
    /\ UNCHANGED <<args, pressure, pressure_window, time_pad, pressure_pad,
                   dt, freq, power, energy, loudness, L_eq, sones, sum_f_max,
                   total_loudness>>

Next ==
    \/ Window
    \/ Padding
    \/ PowerSpectrum
    \/ SoundPressureLevels
    \/ EquivalentLoudness
    \/ CalcTotalLoudness
    \/ Return

Spec == Init /\ [][Next]_vars

----------------------------------------------------------------------------
(* The loudness stages on their own: _equivalent_loudness,                 *)
(* _calc_total_loudness and the final power law applied to a vector L of   *)
(* band levels given directly, so that levels at and around every limit    *)
(* of the transform occur.                                                 *)

\* levels of the band under test, tenths of a dB: silence, the ends of the
\* sones table, and every lower and upper limit of the three-way rule with
\* its two neighbours
LimitLevels == {760, 775, 790, 805, 820, 835, 850, 865,
                1210, 1225, 1240, 1255, 1270, 1285, 1300, 1315}

LevelValues ==
    {NegInf, -50, 0, 5, 10, 50, 400, 1100, 1400, 1405, 1600, 1700}
    \cup LimitLevels
    \cup {v - 1 : v \in LimitLevels}
    \cup {v + 1 : v \in LimitLevels}

\* level of all the other bands
BaseLevels == {NegInf, 0, 600}

\* every band at the lower limit of its three-way rule (86.5 dB where the
\* band has none of its own), or every band at the upper limit, or
\* alternating
EdgeLevels(kind) ==
    [j \in 1..n_bins |->
        LET i   == j - 1
            lim == IF 20 <= i /\ i <= 26 THEN Limits400(i) ELSE <<865, 1315, 105>>
        IN  CASE kind = "lower" -> lim[1]
              [] kind = "upper" -> lim[2]
              [] kind = "mixed" -> IF i % 2 = 0 THEN lim[1] ELSE lim[2]]

\* every band at the lower limit of its three-way rule, or one tenth of a
\* dB above it, alternating
EpsilonLevels ==
    [j \in 1..n_bins |->
        LET i   == j - 1
            lim == IF 20 <= i /\ i <= 26 THEN Limits400(i) ELSE <<865, 1315, 105>>
        IN  IF i % 2 = 0 THEN lim[1] ELSE lim[1] + 1]

LoudnessInputs ==
    {[j \in 1..n_bins |-> IF j = k THEN v ELSE b] :
        k \in 1..n_bins, v \in LevelValues, b \in BaseLevels}
    \cup {EdgeLevels(kind) : kind \in {"lower", "upper", "mixed"}}
    \cup {EpsilonLevels}

InitLoud ==
    /\ pc = "spl"
    /\ loudness \in LoudnessInputs
    /\ time = <<>>
    /\ pressure = <<>>
    /\ pad_front = 0
    /\ pad_rear = 0
    /\ len_window = 0
    /\ Unset
    /\ UnsetLoud

NextLoud == EquivalentLoudness \/ CalcTotalLoudness \/ Return

SpecLoud == InitLoud /\ [][NextLoud]_vars


----------------------------------------------------------------------------
(* Properties *)

Windowed == pc \notin {"start", "error"}

Padded == pc \notin {"start", "error", "windowed"}

HasSpectrum == pc \in {"spectrum", "spl", "leq", "summed", "done"}

HasLevels == pc \in {"spl", "leq", "summed", "done"}

HasEquivalent == pc \in {"leq", "summed", "done"}

HasTotal == pc \in {"summed", "done"}

\* C1: the time sequence returned by _padding is uniformly spaced at the
\* spacing of the input: every two consecutive output samples differ by
\* exactly the input's dt, across both joins as well.
C1_UniformSpacing ==
    Padded =>
        \A k \in 1..(Len(time_pad) - 1) :
            RatSub(time_pad[k + 1], time_pad[k]) = RatSub(time[2], time[1])

\* C2 as stated: whenever len_window exceeds half the signal length,
\* _window fails and no windowed sequence or PLdB value is ever returned.
C2_FailsAboveHalf ==
    2 * len_window > Len(pressure) =>
        /\ pc \in {"start", "error"}
        /\ pressure_window = <<>>

\* C2 (amended): whenever len_window exceeds the signal length, _window
\* fails and no windowed sequence or PLdB value is ever returned.
C2_FailsAboveLength ==
    len_window > Len(pressure) =>
        /\ pc \in {"start", "error"}
        /\ pressure_window = <<>>

C2_Witness == pc = "error" /\ len_window > Len(pressure)

\* C3: for 0 < len_window < N/2 the sequence returned by _window has sample
\* k (k < len_window) equal to the input sample times element k of the Hann
\* window of length 2*len_window, sample N-len_window+k equal to the input
\* sample times element len_window+k of that window, and every sample
\* between the two tapered regions equal to the input sample; the input
\* sequence is never modified.
C3_Taper ==
    (Windowed /\ 0 < len_window /\ 2 * len_window < Len(pressure)) =>
        LET N   == Len(pressure)
            win == hanning(2 * len_window)
        IN  /\ Len(pressure_window) = N
            /\ \A k \in 0..(len_window - 1) :
                 /\ pressure_window[k + 1] = FxMul(pressure[k + 1], win[k + 1])
                 /\ pressure_window[N - len_window + k + 1]
                        = FxMul(pressure[N - len_window + k + 1],
                                win[len_window + k + 1])
            /\ \A k \in len_window..(N - len_window - 1) :
                 pressure_window[k + 1] = pressure[k + 1]

C3_Window == [](C3_Taper) /\ [][pressure' = pressure]_vars

C3_Witness ==
    /\ pc = "windowed"
    /\ len_window = 2
    /\ Len(pressure) = 5
    /\ \A k \in 1..5 : pressure[k] # 0

\* C4 as stated: the band table has exactly 41 bands, n_bins is 41 and
\* every per-band sequence has 41 values.
C4_FortyOneBands ==
    HasLevels =>
        /\ Len(BAND_CENTERS) = 41
        /\ Len(BAND_LOWER_LIMITS) = 41
        /\ Len(BAND_UPPER_LIMITS) = 41
        /\ n_bins = 41
        /\ Len(energy) = 41 /\ Len(loudness) = 41
        /\ HasEquivalent => Len(L_eq) = 41
        /\ HasTotal => Len(sones) = 41

\* C4 (amended): the band table has exactly 42 bands: BAND_CENTERS,
\* BAND_LOWER_LIMITS and BAND_UPPER_LIMITS each have 42 entries, n_bins is
\* 42 and every per-band sequence (energy, SPL, equivalent loudness, sones)
\* has exactly 42 values, indexed 0..41.
C4_FortyTwoBands ==
    /\ Len(BAND_CENTERS) = 42
    /\ Len(BAND_LOWER_LIMITS) = 42
    /\ Len(BAND_UPPER_LIMITS) = 42
    /\ n_bins = 42
    /\ HasLevels => (Len(energy) = 42 /\ Len(loudness) = 42)
    /\ HasEquivalent => Len(L_eq) = 42
    /\ HasTotal => Len(sones) = 42

C4_Witness == pc = "done" /\ Len(sones) = 42 /\ sones[42] > 0

\* the limits and offset the transform tabulates for band i, 20 <= i <= 26:
\* 85.0, 130.0 and 9.0 at i = 20, each 1.5 dB lower per band
C5_Tabulated(i) == <<850 - 15 * (i - 20), 1300 - 15 * (i - 20), 90 - 15 * (i - 20)>>

\* the remap of a level below band 20: 160 - (160 - L)*log10(80)/log10(center)
C5_Remap(i, Li) ==
    LET r == LogRatio(F80, BAND_CENTERS[i + 1])
    IN  ExtSub(1600, ExtMulRatio(ExtSub(1600, Li), r[1], r[2]))

C5_Expected(i, Li) ==
    IF i > 39 THEN ExtAdd(Li, 40 * (39 - i))
    ELSE IF i >= 35 THEN Li
    ELSE IF i >= 32 THEN ExtSub(Li, 20 * (35 - i))
    ELSE IF i >= 27 THEN ExtSub(Li, 80)
    ELSE IF i >= 20
         THEN LET t == C5_Tabulated(i)
              IN  _loud_limits_400(BAND_CENTERS[i + 1], t[1], t[2], Li, t[3]).L_eq
    ELSE _loud_limits_400(F80, 865, 1315, C5_Remap(i, Li), 105).L_eq

\* C5: for every band index i that _equivalent_loudness processes exactly
\* one tier assigns L_eq[i], and it is the tier listed for that index, so
\* that L_eq[i] is a function of i and of the band's own level alone.
C5_Tiers ==
    HasEquivalent =>
        \A j \in 1..Len(loudness) :
            /\ Cardinality({k \in 1..Len(TierNames) :
                               TierGuard(TierNames[k], j - 1)}) = 1
            /\ L_eq[j] = C5_Expected(j - 1, loudness[j])

C5_Witness ==
    /\ pc = "leq"
    /\ \A j \in 1..Len(loudness) : loudness[j] = 600 \/ loudness[j] = 1100
    /\ loudness[41] = 1100

\* the arguments (lower_limit, upper_limit, loudness, X, f_central) of the
\* call of _loud_limits_400 made for band j (1-based), bands 0..26
C6_Call(j) ==
    IF j - 1 >= 20
    THEN LET lim == Limits400(j - 1)
         IN  <<lim[1], lim[2], loudness[j], lim[3], BAND_CENTERS[j]>>
    ELSE <<865, 1315, C5_Remap(j - 1, loudness[j]), 105, F80>>

C6_Anchored(anchor, x, f) ==
    LET r == LogRatio(F400, f)
    IN  ExtSub(ExtSub(anchor, ExtMulRatio(ExtSub(anchor, x), r[1], r[2])), 80)

\* C6: for every call made by _equivalent_loudness, _loud_limits_400 takes
\* exactly one of its three branches, inclusive on the upper bound:
\* loudness <= lowerLimit the 115-anchored branch, lowerLimit < loudness <=
\* upperLimit the value loudness - X - 8, loudness > upperLimit the
\* 160-anchored branch; a result is always assigned.
C6_Branches ==
    /\ pc # "error"
    /\ HasEquivalent =>
        \A j \in 1..27 :
            LET c  == C6_Call(j)
                x  == c[3]
                b  == Branches(c[1], c[2], x)
                r  == _loud_limits_400(c[5], c[1], c[2], x, c[4])
            IN  /\ r.bound
                /\ L_eq[j] = r.L_eq
                /\ x <= c[1] =>
                     (b = {"low"} /\ L_eq[j] = C6_Anchored(1150, x, c[5]))
                /\ (c[1] < x /\ x <= c[2]) =>
                     (b = {"mid"} /\ L_eq[j] = ExtSub(ExtSub(x, c[4]), 80))
                /\ x > c[2] =>
                     (b = {"high"} /\ L_eq[j] = C6_Anchored(1600, x, c[5]))

\* bands sitting exactly on a lower limit and on an upper limit
C6_Witness ==
    /\ pc = "leq"
    /\ \E j \in 21..27 : loudness[j] = Limits400(j - 1)[1]
    /\ \E j \in 21..27 : loudness[j] = Limits400(j - 1)[2]
    /\ C6_Call(20)[3] = 1315

\* C7 as stated: both lookups of _calc_total_loudness are clamped to the
\* table's end values: below 1 dB the first sones value 0.078, above 140 dB
\* the last, 4096; a maximum below the first entry of SONES_F the first
\* summation factor 0.100, one above the last entry the last, 0.227.
C7_ClampedBothEnds ==
    HasTotal =>
        /\ \A j \in 1..Len(L_eq) :
             /\ L_eq[j] < 10 => sones[j] = 78
             /\ L_eq[j] > 1400 => sones[j] = 4096000
        /\ SeqMax(sones) < 181 => sum_f_max = 100
        /\ SeqMax(sones) > 256000 => sum_f_max = 227

\* C7 (amended): above the table's domain both lookups are clamped to the
\* table's last value (4096 sones above 140 dB, summation factor 0.227
\* above the last entry of SONES_F); below the domain both return 0.0: an
\* equivalent loudness below 1 dB maps to 0 sones and a maximum sone value
\* below the first entry of SONES_F to a summation factor of 0.
C7_ZeroBelowClampedAbove ==
    HasTotal =>
        /\ \A j \in 1..Len(L_eq) :
             /\ L_eq[j] < 10 => sones[j] = 0
             /\ L_eq[j] > 1400 => sones[j] = 4096000
        /\ SeqMax(sones) < 181 => sum_f_max = 0
        /\ SeqMax(sones) > 256000 => sum_f_max = 227

\* a finite level below 1 dB in one band and a largest band between 0 and
\* 0.181 sones
C7_Witness ==
    /\ pc = "summed"
    /\ \E j \in 1..Len(L_eq) : L_eq[j] < 10 /\ L_eq[j] # NegInf
    /\ SeqMax(sones) > 0
    /\ SeqMax(sones) < 181

\* C8 as stated: an all-zero pressure signal yields total loudness 0 and the
\* logarithm of zero is handled as an error outcome: the call does not
\* return -inf as its PLdB value.
C8_SilenceIsAnError ==
    (AllZero(pressure) /\ HasTotal) =>
        /\ total_loudness = 0
        /\ ~(pc = "done" /\ pldb = NegInf)

\* C8 (amended): an all-zero pressure signal yields total loudness 0, and
\* the call returns the -inf that the logarithm of zero produces as its
\* PLdB value; no error is raised for it.
C8_SilenceReturnsNegInf ==
    (AllZero(pressure) /\ HasTotal) =>
        /\ total_loudness = 0
        /\ pc = "done" => pldb = NegInf

C8_Witness ==
    /\ pc = "done"
    /\ AllZero(pressure)
    /\ Len(pressure) = 4
    /\ pad_front = 1
    /\ pldb = NegInf

\* C9: the frequency sequence returned by _power_interp is in ascending
\* order and contains an entry equal to each band's lower limit and to each
\* band's upper limit, whatever the sampled frequencies are.
C9_CoversBandLimits ==
    HasSpectrum =>
        /\ \A k \in 1..(Len(freq) - 1) : RatLeq(freq[k], freq[k + 1])
        /\ \A j \in 1..Len(BAND_LOWER_LIMITS) :
             /\ \E k \in 1..Len(freq) : freq[k] = Rat(BAND_LOWER_LIMITS[j], 100)
             /\ \E k \in 1..Len(freq) : freq[k] = Rat(BAND_UPPER_LIMITS[j], 100)

\* sampled frequencies lie between band limits, and the highest of them
\* below the limits of the upper bands
C9_Witness ==
    /\ pc = "spectrum"
    /\ \E k \in 2..(Len(freq) - 1) :
         /\ RatLess(freq[k - 1], freq[k])
         /\ RatLess(freq[k], freq[k + 1])
         /\ \A j \in 1..Len(BAND_LOWER_LIMITS) :
              /\ freq[k] # Rat(BAND_LOWER_LIMITS[j], 100)
              /\ freq[k] # Rat(BAND_UPPER_LIMITS[j], 100)
         /\ RatLess(freq[k], Rat(BAND_LOWER_LIMITS[30], 100))

\* the bands with non-zero sones
C10_Sounding == {j \in 1..Len(sones) : sones[j] # 0}

\* C10: total loudness is S_max + F*(sum of sones - S_max); whenever exactly
\* one band has non-zero sones the total loudness equals that band's sone
\* value, whatever summation factor is looked up.
C10_SingleBand ==
    HasTotal =>
        /\ total_loudness
             = SeqMax(sones)
               + MulDiv(SeqSum(sones) - SeqMax(sones), sum_f_max, 1000)
        /\ Cardinality(C10_Sounding) = 1 =>
             \A j \in C10_Sounding : total_loudness = sones[j]

C10_Witness ==
    /\ pc = "summed"
    /\ Cardinality(C10_Sounding) = 1
    /\ sum_f_max > 0
    /\ total_loudness > 0


\* the original reading of C11: both tables never decrease from one entry
\* to the next
C11_BothNonDecreasing ==
    HasTotal =>
        /\ \A k \in 1..(Len(SONES_L) - 1) : SONES_L[k] <= SONES_L[k + 1]
        /\ \A k \in 1..(Len(SUMMATION_FACTORS) - 1) :
             SUMMATION_FACTORS[k] <= SUMMATION_FACTORS[k + 1]

\* C11: of the tables used by _calc_total_loudness, SONES_L increases
\* over L_EQ_RANGE 1..140 and both interpolation domains (L_EQ_RANGE and
\* SONES_F) ascend, but SUMMATION_FACTORS is not monotone over SONES_F: it
\* rises up to its 27th entry (0.322), falls from there to its 65th entry
\* (0.190), and rises again to its last entry (0.227).
C11_SummationFactorsDip ==
    HasTotal =>
        /\ Len(L_EQ_RANGE) = Len(SONES_L)
        /\ Len(SONES_F) = Len(SUMMATION_FACTORS)
        /\ \A k \in 1..(Len(SONES_L) - 1) :
             /\ SONES_L[k] < SONES_L[k + 1]
             /\ RatLess(L_EQ_RANGE[k], L_EQ_RANGE[k + 1])
        /\ \A k \in 1..(Len(SONES_F) - 1) : RatLess(SONES_F[k], SONES_F[k + 1])
        /\ \A k \in 1..26 : SUMMATION_FACTORS[k] <= SUMMATION_FACTORS[k + 1]
        /\ \A k \in 27..64 : SUMMATION_FACTORS[k] > SUMMATION_FACTORS[k + 1]
        /\ \A k \in 65..94 : SUMMATION_FACTORS[k] <= SUMMATION_FACTORS[k + 1]

\* the loudest band lies in the falling part of the table, and the
\* summation factor found for it is smaller than the one of a quieter band
C11_Witness ==
    /\ pc = "summed"
    /\ \E k \in 27..64 :
         /\ RatLeq(SONES_F[k], RatInt(SeqMax(sones)))
         /\ RatLess(RatInt(SeqMax(sones)), SONES_F[k + 1])
         /\ sum_f_max <= SUMMATION_FACTORS[k]
         /\ sum_f_max > SUMMATION_FACTORS[k + 1]
         /\ sum_f_max < SUMMATION_FACTORS[27]

\* the original reading of C12: a level at the lower limit and a level a
\* small step above it are both handled by the 'loudness <= lowerLimit'
\* branch
C12_EpsilonTakenAsEqual ==
    HasEquivalent =>
        \A j \in 1..27 :
            LET c == C6_Call(j)
                x == c[3]
            IN  (x = c[1] \/ x = c[1] + 1) =>
                    /\ Branches(c[1], c[2], x) = {"low"}
                    /\ L_eq[j] = C6_Anchored(1150, x, c[5])

\* C12: in the three-way rule of _loud_limits_400 a level equal to
\* lowerLimit falls on the 'loudness <= lowerLimit' branch (the 115-anchored
\* value), while a level one step (0.1 dB) above lowerLimit falls on the
\* middle branch and gets loudness - X - 8.
C12_EpsilonTakesMiddle ==
    HasEquivalent =>
        \A j \in 1..27 :
            LET c == C6_Call(j)
                x == c[3]
            IN  /\ x = c[1] =>
                    /\ Branches(c[1], c[2], x) = {"low"}
                    /\ L_eq[j] = C6_Anchored(1150, x, c[5])
                /\ x = c[1] + 1 =>
                    /\ Branches(c[1], c[2], x) = {"mid"}
                    /\ L_eq[j] = ExtSub(ExtSub(x, c[4]), 80)

\* one band exactly on its lower limit, another one step above its own
\* and given the value of the middle branch
C12_Witness ==
    /\ pc = "leq"
    /\ \E j \in 21..27 : loudness[j] = Limits400(j - 1)[1]
    /\ \E j \in 21..27 :
         /\ loudness[j] = Limits400(j - 1)[1] + 1
         /\ L_eq[j] = ExtSub(ExtSub(loudness[j], Limits400(j - 1)[3]), 80)
         /\ Branches(Limits400(j - 1)[1], Limits400(j - 1)[2], loudness[j]) = {"mid"}

\* C13: the time step used by _power_spectrum for the frequency bins and
\* the power scaling equals the spacing between consecutive samples of the
\* time sequence, in seconds: for an input padded from a signal of spacing
\* d milliseconds it is d / 1000.
C13_StepIsSpacing ==
    HasSpectrum =>
        LET d == RatDivInt(RatSub(time[2], time[1]), 1000)
        IN  RatLeq(dt, d) /\ RatLeq(d, dt)

\* indices of the spectrum points selected for band j (1-based)
C14_Section(j) ==
    {i \in 1..Len(freq) : RatLeq(LowerHz[j], freq[i]) /\ RatLeq(freq[i], UpperHz[j])}

\* C14: on the output of _power_interp every band selects at least two
\* spectrum points, among them an entry at its own lower limit and an entry
\* at its own upper limit, so the branch that leaves the band's energy at
\* zero for want of points is never taken; a band whose only points are
\* those two gets the trapezoid over them, divided by t_crit, as its energy.
C14_EveryBandIntegrated ==
    HasLevels =>
        \A j \in 1..n_bins :
            LET S == C14_Section(j)
            IN  /\ Cardinality(S) >= 2
                /\ \E a \in S : \E b \in S \ {a} :
                     /\ a < b
                     /\ freq[a] = LowerHz[j]
                     /\ freq[b] = UpperHz[j]
                     /\ Cardinality(S) = 2 =>
                          energy[j] = MulDiv(trapz(<<power[a], power[b]>>,
                                                   <<freq[a], freq[b]>>),
                                             T_CRIT[2], T_CRIT[1])

\* a band holding no sampled frequency has non-zero energy from its two
\* boundary values, while another band holds a sampled frequency inside it
C14_Witness ==
    /\ pc = "spl"
    /\ \E j \in 1..n_bins : Cardinality(C14_Section(j)) = 2 /\ energy[j] > 0
    /\ \E j \in 1..n_bins :
         \E i \in C14_Section(j) :
            RatLess(LowerHz[j], freq[i]) /\ RatLess(freq[i], UpperHz[j])
====
